---- MODULE Spec2Model ----
(***************************************************************************)
(* StyleDecor server: the request handlers of the latest revision          *)
(* (src/unnamed/part_000) over the six document-store collections.         *)
(* Each action is one HTTP request served to completion; the status       *)
(* update and the cash-out are also given store call by store call, their  *)
(* requests in flight held in pending.  db is the module-level store       *)
(* handle and connects counts the calls of client.connect().  Money is     *)
(* kept in                                                                 *)
(* integer cents.  Documents of a collection are kept in insertion order;  *)
(* a document's _id is its position in the collection.                     *)
(***************************************************************************)
EXTENDS Integers, Sequences, FiniteSets, TLC

VARIABLES users, decorators, bookings, payments, services, trackings, resp,
          pending, db, connects

vars == <<users, decorators, bookings, payments, services, trackings, resp,
          pending, db, connects>>

(* ------------------------------ bounds --------------------------------- *)
MaxBookings == 2
MaxPayments == 2
MaxApps     == 2
MaxServices == 2
MaxTrackings == 2
MaxCashPayments == 1
MaxCashServices == 1
MaxAuthDocs == 1
MaxPending == 2

(* ------------------------- request input domains ----------------------- *)
Emails == {"a@x.com", "b@x.com"}

\* role field of a POST /users body
BodyRoles == {"user", "admin"}

\* a field that the request body does not carry (JavaScript undefined)
Undefined == "undefined"
\* what the store holds for a field written as undefined (BSON null)
Null == "null"

\* bookingId of a request body: a well-formed id, or 0 when the field is absent
NoId == 0
BookingIds == 1..MaxBookings
BodyIds == BookingIds \cup {NoId}

\* amount of a POST /payments body, in cents
Amounts == {0, 1, 2, 100000}

\* paymentStatus field of a POST /bookings body
BodyPaymentStatus == {Undefined, "unpaid", "paid"}

\* price field of a POST /services body, in cents
BodyPrices == {0, 500}

\* status field of a PATCH /services/:id body
BodyStatus == {Undefined, "Assigned", "Confirmed", "Completed"}

\* trackingNo field of a POST /services/cashout/:id body
TrackingNos == {"TRK-1", "TRK-2"}

NoUser == "none"

\* Authorization header of a request: absent, a bearer token that
\* verifyIdToken rejects, or a bearer token verified for an email
NoToken == "no-token"
BadToken == "bad-token"
Credentials == {NoToken, BadToken} \cup Emails

(* ------------------------------ helpers -------------------------------- *)
\* BSON serialisation of a field value: undefined is stored as null
Stored(v) == IF v = Undefined THEN Null ELSE v

Min(S) == CHOOSE x \in S : \A y \in S : x <= y

\* the role guard left off the route, as in the revision whose POST /services
\* runs behind verifyJWT alone
VerifyRole_Off(caller, role) == TRUE

\* verifyRole(role): the caller's user record exists and carries the role
VerifyRole(caller, role) == users[caller] # NoUser /\ users[caller] = role

\* the requests that can be in flight at once, and the slot of none
Reqs == 1..MaxPending
Idle == [pc |-> "idle"]

\* let db; before the first assignment
NoDb == 0

Init ==
  /\ users = [e \in Emails |-> NoUser]
  /\ decorators = <<>>
  /\ bookings = <<>>
  /\ payments = <<>>
  /\ services = <<>>
  /\ trackings = <<>>
  /\ resp = [op |-> "none", result |-> "none"]
  /\ pending = [r \in Reqs |-> Idle]
  /\ db = NoDb
  /\ connects = 0

(* ------------------------------- users --------------------------------- *)
\* POST /users
Register(email, role) ==
  /\ IF users[email] # NoUser
       THEN /\ resp' = [op |-> "Register", result |-> "exists"]
            /\ UNCHANGED users
       ELSE /\ users' = [users EXCEPT ![email] = role]
            /\ resp' = [op |-> "Register", result |-> "ok"]
  /\ UNCHANGED <<db, connects, pending, decorators, bookings, payments, services, trackings>>

(* ----------------------------- bookings -------------------------------- *)
\* the body inserted as it came, as in the revisions that call
\* bookings.insertOne(req.body)
StampOwner_TrustBody(body, caller) == body

\* { ...req.body, userEmail: req.user.email }: the body's fields, with userEmail
\* overwritten by the token's email
StampOwner(body, caller) == [body EXCEPT !.userEmail = caller]

\* GET /bookings/user: bookings.find({ userEmail: req.user.email })
BookingsOfUser(caller) == {i \in 1..Len(bookings) : bookings[i].userEmail = caller}

\* POST /bookings
CreateBooking(caller, bodyEmail, ps) ==
  /\ Len(bookings) < MaxBookings
  /\ bookings' = Append(bookings,
                   StampOwner([userEmail |-> bodyEmail, paymentStatus |-> Stored(ps)],
                              caller))
  /\ resp' = [op |-> "CreateBooking", result |-> "ok"]
  /\ UNCHANGED <<db, connects, pending, users, decorators, payments, services, trackings>>

(* ----------------------------- payments -------------------------------- *)
\* bookings.updateOne({_id: new ObjectId(bookingId)}, {$set: {paymentStatus: "paid"}}):
\* an absent bookingId yields a fresh ObjectId, which matches no booking
MarkPaid(bid) ==
  [i \in 1..Len(bookings) |->
     IF i = bid THEN [bookings[i] EXCEPT !.paymentStatus = "paid"] ELSE bookings[i]]

\* POST /payments
Pay(bid, amt) ==
  /\ Len(payments) < MaxPayments
  /\ payments' = Append(payments, [bookingId |-> bid, amount |-> amt])
  /\ bookings' = MarkPaid(bid)
  /\ resp' = [op |-> "Pay", result |-> "ok"]
  /\ UNCHANGED <<db, connects, pending, users, decorators, services, trackings>>

(* ---------------------------- decorators ------------------------------- *)
\* the duplicate check left out, as in the revisions that insert unconditionally
ExistingApplication_Never(email) == FALSE

\* decorators.findOne({ email }) of POST /decorators/apply
ExistingApplication(email) == \E i \in 1..Len(decorators) : decorators[i].email = email

\* POST /decorators/apply
Apply(email) ==
  IF ExistingApplication(email)
    THEN /\ resp' = [op |-> "Apply", result |-> "DuplicateApplication"]
         /\ UNCHANGED <<db, connects, pending, users, decorators, bookings, payments, services, trackings>>
    ELSE /\ Len(decorators) < MaxApps
         /\ decorators' = Append(decorators, [email |-> email, status |-> "pending"])
         /\ resp' = [op |-> "Apply", result |-> "ok"]
         /\ UNCHANGED <<db, connects, pending, users, bookings, payments, services, trackings>>

\* users.updateOne({email}, {$set: {role: "decorator"}}): no upsert, so a
\* missing user record stays missing
SetRoleDecorator(email) ==
  [e \in Emails |-> IF e = email /\ users[e] # NoUser THEN "decorator" ELSE users[e]]

\* PATCH /decorators/approve/:id behind verifyRole("admin")
Approve(caller, id) ==
  IF ~VerifyRole(caller, "admin")
    THEN /\ resp' = [op |-> "Approve", result |-> "AccessDenied"]
         /\ UNCHANGED <<db, connects, pending, users, decorators, bookings, payments, services, trackings>>
    ELSE IF id \notin 1..Len(decorators)
    THEN /\ resp' = [op |-> "Approve", result |-> "NotFound"]
         /\ UNCHANGED <<db, connects, pending, users, decorators, bookings, payments, services, trackings>>
    ELSE /\ decorators' = [decorators EXCEPT ![id].status = "approved"]
         /\ users' = SetRoleDecorator(decorators[id].email)
         /\ resp' = [op |-> "Approve", result |-> "ok"]
         /\ UNCHANGED <<db, connects, pending, bookings, payments, services, trackings>>

(* ----------------------------- services -------------------------------- *)
\* the duplicate check left out, as in the revisions that insert unconditionally
ExistingService_Never(bid) == FALSE

\* services.findOne({ bookingId }) of POST /services
ExistingService(bid) == \E i \in 1..Len(services) : services[i].bookingId = bid

\* POST /services behind verifyRole("admin")
AssignService(caller, bid, price) ==
  IF ~VerifyRole(caller, "admin")
    THEN /\ resp' = [op |-> "AssignService", result |-> "AccessDenied"]
         /\ UNCHANGED <<db, connects, pending, users, decorators, bookings, payments, services, trackings>>
    ELSE IF ExistingService(bid)
    THEN /\ resp' = [op |-> "AssignService", result |-> "DuplicateAssignment"]
         /\ UNCHANGED <<db, connects, pending, users, decorators, bookings, payments, services, trackings>>
    ELSE /\ Len(services) < MaxServices
         /\ services' = Append(services,
                          [bookingId |-> bid, price |-> price, status |-> "Assigned"])
         /\ resp' = [op |-> "AssignService", result |-> "ok"]
         /\ UNCHANGED <<db, connects, pending, users, decorators, bookings, payments, trackings>>

\* validTransitions[current]: the successor, or undefined when the table has
\* no such key
ValidTransitions(current) ==
  CASE current = "Assigned"  -> "Confirmed"
    [] current = "Confirmed" -> "Completed"
    [] OTHER -> Undefined

\* PATCH /services/:id
UpdateServiceStatus(id, status) ==
  IF id \notin 1..Len(services)
    THEN /\ resp' = [op |-> "UpdateServiceStatus", result |-> "NotFound"]
         /\ UNCHANGED <<db, connects, pending, users, decorators, bookings, payments, services, trackings>>
    ELSE IF ValidTransitions(services[id].status) # status
    THEN /\ resp' = [op |-> "UpdateServiceStatus", result |-> "InvalidTransition"]
         /\ UNCHANGED <<db, connects, pending, users, decorators, bookings, payments, services, trackings>>
    ELSE /\ services' = [services EXCEPT ![id].status = Stored(status)]
         /\ resp' = [op |-> "UpdateServiceStatus", result |-> "ok"]
         /\ UNCHANGED <<db, connects, pending, users, decorators, bookings, payments, trackings>>

(* ----------------------------- cash-out -------------------------------- *)
\* toFixed taken to cut the digits off instead of rounding
ToFixed2_Truncate(tenths) ==
  IF tenths >= 0 THEN tenths \div 10 ELSE -((-tenths) \div 10)

\* x.toFixed(2) read back with Number(), for x given in tenths of a cent:
\* the nearest number of cents, the larger one on a tie, the sign kept
ToFixed2(tenths) ==
  IF tenths >= 0 THEN (tenths + 5) \div 10 ELSE -((-tenths + 5) \div 10)

\* Number((payment.amount * 0.4).toFixed(2)), amount in cents
DecoratorAmount(amount) == ToFixed2(amount * 4)

\* payments.findOne({ bookingId }): the first matching document
PaymentsFor(bid) == {i \in 1..Len(payments) : payments[i].bookingId = bid}

\* service.price && service.price > 0
AlreadyCashedOut(service) == service.price # 0 /\ service.price > 0

\* the cash-out write that records the price and leaves the status alone
CashOutSet_PriceOnly(service, decoratorAmount) ==
  [service EXCEPT !.price = decoratorAmount]

\* services.updateOne({_id}, {$set: {price: decoratorAmount, status: "Completed"}})
CashOutSet(service, decoratorAmount) ==
  [service EXCEPT !.price = decoratorAmount, !.status = "Completed"]

\* the document of trackings.insertOne in the cash-out
CashOutTracking(service, decoratorAmount, trackingNo) ==
  [bookingId |-> service.bookingId, trackingNo |-> Stored(trackingNo),
   cost |-> decoratorAmount, status |-> "Completed"]

\* POST /services/cashout/:id
CashOut(id, trackingNo) ==
  IF id \notin 1..Len(services)
    THEN /\ resp' = [op |-> "CashOut", result |-> "NotFound"]
         /\ UNCHANGED <<db, connects, pending, users, decorators, bookings, payments, services, trackings>>
    ELSE IF AlreadyCashedOut(services[id])
    THEN /\ resp' = [op |-> "CashOut", result |-> "AlreadyCashedOut"]
         /\ UNCHANGED <<db, connects, pending, users, decorators, bookings, payments, services, trackings>>
    ELSE IF PaymentsFor(services[id].bookingId) = {}
    THEN /\ resp' = [op |-> "CashOut", result |-> "PaymentMissing"]
         /\ UNCHANGED <<db, connects, pending, users, decorators, bookings, payments, services, trackings>>
    ELSE LET payment == payments[Min(PaymentsFor(services[id].bookingId))]
             decoratorAmount == DecoratorAmount(payment.amount)
         IN /\ Len(trackings) < MaxTrackings
            /\ services' = [services EXCEPT ![id] = CashOutSet(services[id], decoratorAmount)]
            /\ trackings' = Append(trackings,
                              CashOutTracking(services[id], decoratorAmount, trackingNo))
            /\ resp' = [op |-> "CashOut", result |-> "ok"]
            /\ UNCHANGED <<db, connects, pending, users, decorators, bookings, payments>>

(* ------------- status update and cash-out, call by call ---------------- *)
\* PATCH /services/:id up to its updateOne: the findOne and the two tests
UpdateFind(r, id, status) ==
  /\ pending[r] = Idle
  /\ IF id \notin 1..Len(services)
       THEN /\ resp' = [op |-> "UpdateServiceStatus", result |-> "NotFound"]
            /\ UNCHANGED pending
       ELSE IF ValidTransitions(services[id].status) # status
       THEN /\ resp' = [op |-> "UpdateServiceStatus", result |-> "InvalidTransition"]
            /\ UNCHANGED pending
       ELSE /\ pending' = [pending EXCEPT ![r] = [pc |-> "updateOne", id |-> id,
                                                  status |-> status]]
            /\ UNCHANGED resp
  /\ UNCHANGED <<db, connects, users, decorators, bookings, payments, services, trackings>>

\* PATCH /services/:id: the updateOne and the response
UpdateWrite(r) ==
  /\ pending[r].pc = "updateOne"
  /\ services' = [services EXCEPT ![pending[r].id].status = Stored(pending[r].status)]
  /\ resp' = [op |-> "UpdateServiceStatus", result |-> "ok"]
  /\ pending' = [pending EXCEPT ![r] = Idle]
  /\ UNCHANGED <<db, connects, users, decorators, bookings, payments, trackings>>

\* POST /services/cashout/:id up to its payment lookup: the findOne of the
\* service and the price test
CashOutFind(r, id, trackingNo) ==
  /\ pending[r] = Idle
  /\ IF id \notin 1..Len(services)
       THEN /\ resp' = [op |-> "CashOut", result |-> "NotFound"]
            /\ UNCHANGED pending
       ELSE IF AlreadyCashedOut(services[id])
       THEN /\ resp' = [op |-> "CashOut", result |-> "AlreadyCashedOut"]
            /\ UNCHANGED pending
       ELSE /\ pending' = [pending EXCEPT ![r] =
                             [pc |-> "payment", id |-> id,
                              bookingId |-> services[id].bookingId,
                              trackingNo |-> trackingNo]]
            /\ UNCHANGED resp
  /\ UNCHANGED <<db, connects, users, decorators, bookings, payments, services, trackings>>

\* POST /services/cashout/:id: payments.findOne and the amount
CashOutPayment(r) ==
  /\ pending[r].pc = "payment"
  /\ IF PaymentsFor(pending[r].bookingId) = {}
       THEN /\ resp' = [op |-> "CashOut", result |-> "PaymentMissing"]
            /\ pending' = [pending EXCEPT ![r] = Idle]
       ELSE /\ pending' = [pending EXCEPT ![r] =
                             [pc |-> "set", id |-> pending[r].id,
                              bookingId |-> pending[r].bookingId,
                              trackingNo |-> pending[r].trackingNo,
                              decoratorAmount |->
                                DecoratorAmount(payments[Min(PaymentsFor(pending[r].bookingId))].amount)]]
            /\ UNCHANGED resp
  /\ UNCHANGED <<db, connects, users, decorators, bookings, payments, services, trackings>>

\* POST /services/cashout/:id: services.updateOne
CashOutUpdate(r) ==
  /\ pending[r].pc = "set"
  /\ services' = [services EXCEPT ![pending[r].id] =
                    CashOutSet(services[pending[r].id], pending[r].decoratorAmount)]
  /\ pending' = [pending EXCEPT ![r].pc = "insert"]
  /\ UNCHANGED <<db, connects, users, decorators, bookings, payments, trackings, resp>>

\* POST /services/cashout/:id: trackings.insertOne and the response
CashOutInsert(r) ==
  /\ pending[r].pc = "insert"
  /\ Len(trackings) < MaxTrackings
  /\ trackings' = Append(trackings,
                     CashOutTracking(pending[r], pending[r].decoratorAmount,
                                     pending[r].trackingNo))
  /\ resp' = [op |-> "CashOut", result |-> "ok"]
  /\ pending' = [pending EXCEPT ![r] = Idle]
  /\ UNCHANGED <<db, connects, users, decorators, bookings, payments, services>>

(* --------------------- the lazy store connection ----------------------- *)
\* a read past verifyJWT enters getDB(): the test of db and, when it is
\* unset, the call of client.connect(), which is then awaited
GetDB(r, op, caller) ==
  /\ pending[r] = Idle
  /\ IF db = NoDb
       THEN /\ connects' = connects + 1
            /\ pending' = [pending EXCEPT ![r] =
                             [pc |-> "client.connect", op |-> op, caller |-> caller]]
       ELSE /\ pending' = [pending EXCEPT ![r] =
                             [pc |-> "collection", op |-> op, caller |-> caller,
                              handle |-> db]]
            /\ UNCHANGED connects
  /\ UNCHANGED <<users, decorators, bookings, payments, services, trackings, resp, db>>

\* getDB(): the connect of this request resolves; db = client.db(name), a
\* handle of this call's making, is assigned and returned
Connected(r) ==
  /\ pending[r].pc = "client.connect"
  /\ db' = r
  /\ pending' = [pending EXCEPT ![r] =
                   [pc |-> "collection", op |-> pending[r].op,
                    caller |-> pending[r].caller, handle |-> r]]
  /\ UNCHANGED <<users, decorators, bookings, payments, services, trackings, resp,
                 connects>>

\* the handler reads through the handle it got: GET /users/role answers
\* 404 without a user record, GET /bookings/user sends the caller's list
Answer(r) ==
  /\ pending[r].pc = "collection"
  /\ resp' = [op |-> pending[r].op,
              result |-> IF pending[r].op = "GetUserRole"
                            /\ users[pending[r].caller] = NoUser
                         THEN "NotFound" ELSE "ok"]
  /\ pending' = [pending EXCEPT ![r] = Idle]
  /\ UNCHANGED <<db, connects, users, decorators, bookings, payments, services, trackings>>

(* ------------- reads whose awaited store calls can reject -------------- *)
\* a request whose handler promise rejected with nobody to answer it
Unanswered == [pc |-> "unanswered"]

\* an await inside an async middleware or handler rejects (the store call
\* fails, or the code after it throws); the route has no try/catch, so what
\* follows is the framework's and the runtime's: the rejection is dropped
\* and the request is never answered, or the runtime ends the process on
\* the unhandled rejection and every request in flight is lost with it, or
\* the framework hands the error to its default handler, which sends a 500
Throw(r, op) ==
  \/ /\ pending' = [pending EXCEPT ![r] = Unanswered]
     /\ UNCHANGED resp
  \/ /\ pending' = [q \in Reqs |-> IF pending[q] = Idle THEN Idle ELSE Unanswered]
     /\ UNCHANGED resp
  \/ /\ pending' = [pending EXCEPT ![r] = Idle]
     /\ resp' = [op |-> op, result |-> "DefaultHandler500"]

\* GET /services past verifyJWT: users.findOne({email: req.user.email}) is awaited
GetServicesFind(r, caller) ==
  /\ pending[r] = Idle
  /\ pending' = [pending EXCEPT ![r] = [pc |-> "users.findOne", caller |-> caller]]
  /\ UNCHANGED <<db, connects, users, decorators, bookings, payments, services, trackings, resp>>

\* GET /services: the findOne settles; user.role is read off the result,
\* which is null when the caller has no user record, and the list is sent
GetServicesSend(r, failed) ==
  /\ pending[r].pc = "users.findOne"
  /\ IF failed \/ users[pending[r].caller] = NoUser
       THEN Throw(r, "GetServices")
       ELSE /\ pending' = [pending EXCEPT ![r] = Idle]
            /\ resp' = [op |-> "GetServices", result |-> "ok"]
  /\ UNCHANGED <<db, connects, users, decorators, bookings, payments, services, trackings>>

\* GET /users past verifyJWT: verifyRole("admin") awaits users.findOne
VerifyRoleFind(r, caller) ==
  /\ pending[r] = Idle
  /\ pending' = [pending EXCEPT ![r] = [pc |-> "verifyRole", caller |-> caller]]
  /\ UNCHANGED <<db, connects, users, decorators, bookings, payments, services, trackings, resp>>

\* verifyRole("admin"): the findOne settles; 403 or next()
VerifyRoleTest(r, failed) ==
  /\ pending[r].pc = "verifyRole"
  /\ IF failed
       THEN Throw(r, "GetUsers")
       ELSE IF ~VerifyRole(pending[r].caller, "admin")
       THEN /\ pending' = [pending EXCEPT ![r] = Idle]
            /\ resp' = [op |-> "GetUsers", result |-> "AccessDenied"]
       ELSE /\ pending' = [pending EXCEPT ![r] = [pc |-> "users.find"]]
            /\ UNCHANGED resp
  /\ UNCHANGED <<db, connects, users, decorators, bookings, payments, services, trackings>>

\* GET /users: users.find().toArray() settles and the list is sent
GetUsersSend(r, failed) ==
  /\ pending[r].pc = "users.find"
  /\ IF failed
       THEN Throw(r, "GetUsers")
       ELSE /\ pending' = [pending EXCEPT ![r] = Idle]
            /\ resp' = [op |-> "GetUsers", result |-> "ok"]
  /\ UNCHANGED <<db, connects, users, decorators, bookings, payments, services, trackings>>

(* ----------------------- routes behind verifyJWT ------------------------ *)
\* verifyJWT: 401 without a bearer header, 403 when verification throws,
\* otherwise next() with req.user set from the token
VerifyJWT(cred) ==
  IF cred = NoToken THEN "Unauthenticated"
  ELSE IF cred = BadToken THEN "Forbidden"
  ELSE "next"

\* the response verifyJWT sends when it does not call next()
Rejected(op, cred) ==
  /\ VerifyJWT(cred) # "next"
  /\ resp' = [op |-> op, result |-> VerifyJWT(cred)]
  /\ UNCHANGED <<db, connects, pending, users, decorators, bookings, payments, services, trackings>>

\* app.post("/users", handler): no middleware on the route
ReqRegister(cred, email, role) == Register(email, role)

\* app.get("/bookings/user", verifyJWT, handler)
ReqBookingsOfUser(cred) ==
  IF VerifyJWT(cred) = "next"
  THEN /\ resp' = [op |-> "BookingsOfUser", result |-> "ok"]
       /\ UNCHANGED <<db, connects, pending, users, decorators, bookings, payments, services, trackings>>
  ELSE Rejected("BookingsOfUser", cred)

\* app.post("/bookings", verifyJWT, handler)
ReqCreateBooking(cred, bodyEmail, ps) ==
  IF VerifyJWT(cred) = "next" THEN CreateBooking(cred, bodyEmail, ps)
  ELSE Rejected("CreateBooking", cred)

\* app.post("/payments", verifyJWT, handler)
ReqPay(cred, bid, amt) ==
  IF VerifyJWT(cred) = "next" THEN Pay(bid, amt) ELSE Rejected("Pay", cred)

\* app.post("/decorators/apply", verifyJWT, handler)
ReqApply(cred, email) ==
  IF VerifyJWT(cred) = "next" THEN Apply(email) ELSE Rejected("Apply", cred)

\* app.patch("/decorators/approve/:id", verifyJWT, verifyRole("admin"), handler)
ReqApprove(cred, id) ==
  IF VerifyJWT(cred) = "next" THEN Approve(cred, id) ELSE Rejected("Approve", cred)

\* app.post("/services", verifyJWT, verifyRole("admin"), handler)
ReqAssignService(cred, bid, price) ==
  IF VerifyJWT(cred) = "next" THEN AssignService(cred, bid, price)
  ELSE Rejected("AssignService", cred)

\* app.patch("/services/:id", verifyJWT, handler)
ReqUpdateServiceStatus(cred, id, status) ==
  IF VerifyJWT(cred) = "next" THEN UpdateServiceStatus(id, status)
  ELSE Rejected("UpdateServiceStatus", cred)

\* app.post("/services/cashout/:id", verifyJWT, handler)
ReqCashOut(cred, id, trackingNo) ==
  IF VerifyJWT(cred) = "next" THEN CashOut(id, trackingNo)
  ELSE Rejected("CashOut", cred)

\* one request carrying the credential cred, on any of the routes, for the
\* first booking, the first application and the first service, while each
\* collection holds fewer than MaxAuthDocs documents past the first
RequestWith(cred) ==
  \/ \E e \in Emails, r \in BodyRoles : ReqRegister(cred, e, r)
  \/ ReqBookingsOfUser(cred)
  \/ /\ Len(bookings) < MaxAuthDocs
     /\ ReqCreateBooking(cred, "a@x.com", "unpaid")
  \/ /\ Len(payments) < MaxAuthDocs
     /\ ReqPay(cred, 1, 100000)
  \/ \E e \in Emails : ReqApply(cred, e)
  \/ \E i \in 1..MaxAuthDocs : ReqApprove(cred, i)
  \/ \E b \in 1..MaxAuthDocs : ReqAssignService(cred, b, 0)
  \/ \E i \in 1..MaxAuthDocs : ReqUpdateServiceStatus(cred, i, "Confirmed")
  \/ /\ Len(trackings) < MaxAuthDocs
     /\ \E i \in 1..MaxAuthDocs : ReqCashOut(cred, i, "TRK-1")

(* --------------------------- specifications ---------------------------- *)
\* every request of the server
Next ==
  \/ \E e \in Emails, r \in BodyRoles : Register(e, r)
  \/ \E c \in Emails, e \in Emails, ps \in BodyPaymentStatus : CreateBooking(c, e, ps)
  \/ \E b \in BodyIds, a \in Amounts : Pay(b, a)
  \/ \E e \in Emails : Apply(e)
  \/ \E c \in Emails, i \in 1..MaxApps : Approve(c, i)
  \/ \E c \in Emails, b \in BodyIds, p \in BodyPrices : AssignService(c, b, p)
  \/ \E i \in 1..MaxServices, s \in BodyStatus : UpdateServiceStatus(i, s)
  \/ \E i \in 1..MaxServices, n \in TrackingNos : CashOut(i, n)

Spec == Init /\ [][Next]_vars

\* the booking and payment requests
NextPay ==
  \/ \E c \in Emails, e \in Emails, ps \in BodyPaymentStatus : CreateBooking(c, e, ps)
  \/ \E b \in BodyIds, a \in Amounts : Pay(b, a)

SpecPay == Init /\ [][NextPay]_vars

\* registration and the decorator application workflow
NextDecor ==
  \/ \E e \in Emails, r \in BodyRoles : Register(e, r)
  \/ \E e \in Emails : Apply(e)
  \/ \E c \in Emails, i \in 1..MaxApps : Approve(c, i)

SpecDecor == Init /\ [][NextDecor]_vars

\* the service work order: assignment and the status machine
NextStatus ==
  \/ \E e \in Emails, r \in BodyRoles : Register(e, r)
  \/ \E c \in Emails, b \in BodyIds, p \in BodyPrices : AssignService(c, b, p)
  \/ \E i \in 1..MaxServices, s \in BodyStatus : UpdateServiceStatus(i, s)

SpecStatus == Init /\ [][NextStatus]_vars

\* cash-out of an assigned service, in any status, against the payments
\* recorded for its booking, the requests carrying a bookingId and the
\* payments a positive amount, the registrations being those of the admins
\* who assign, within the tighter bounds MaxCashPayments and MaxCashServices
NextCashOut ==
  \/ \E e \in Emails : Register(e, "admin")
  \/ /\ Len(payments) < MaxCashPayments
     /\ \E b \in BookingIds, a \in {x \in Amounts : x > 0} : Pay(b, a)
  \/ /\ Len(services) < MaxCashServices
     /\ \E c \in Emails, b \in BookingIds, p \in BodyPrices : AssignService(c, b, p)
  \/ \E i \in 1..MaxCashServices, s \in BodyStatus : UpdateServiceStatus(i, s)
  \/ \E i \in 1..MaxCashServices, n \in TrackingNos : CashOut(i, n)

SpecCashOut == Init /\ [][NextCashOut]_vars

\* the admin-only requests, with the registrations and applications they act on
NextAdmin ==
  \/ \E e \in Emails, r \in BodyRoles : Register(e, r)
  \/ \E e \in Emails : Apply(e)
  \/ \E c \in Emails, i \in 1..MaxApps : Approve(c, i)
  \/ \E c \in Emails, b \in BodyIds, p \in BodyPrices : AssignService(c, b, p)

SpecAdmin == Init /\ [][NextAdmin]_vars

\* status updates and cash-outs of an assigned service interleaved call by
\* call, up to MaxPending requests in flight, the update requests naming a
\* status, over the registrations, payments and assignments of NextCashOut
NextRace ==
  \/ \E e \in Emails : Register(e, "admin")
  \/ /\ Len(payments) < MaxCashPayments
     /\ \E b \in BookingIds : Pay(b, 100000)
  \/ /\ Len(services) < MaxCashServices
     /\ \E c \in Emails, b \in BookingIds : AssignService(c, b, 0)
  \/ \E r \in Reqs, i \in 1..MaxCashServices, s \in BodyStatus \ {Undefined} :
       UpdateFind(r, i, s)
  \/ \E r \in Reqs : UpdateWrite(r)
  \/ \E r \in Reqs, i \in 1..MaxCashServices, n \in TrackingNos : CashOutFind(r, i, n)
  \/ \E r \in Reqs : CashOutPayment(r)
  \/ \E r \in Reqs : CashOutUpdate(r)
  \/ \E r \in Reqs : CashOutInsert(r)

SpecRace == Init /\ [][NextRace]_vars

\* reads arriving at a process that has not connected yet, up to
\* MaxPending of them in flight, every connect succeeding
NextConnect ==
  \/ \E r \in Reqs, op \in {"GetUserRole", "BookingsOfUser"}, c \in Emails :
       GetDB(r, op, c)
  \/ \E r \in Reqs : Connected(r)
  \/ \E r \in Reqs : Answer(r)

SpecConnect == Init /\ [][NextConnect]_vars

\* the two reads served await by await, over the registrations
NextServe ==
  \/ \E e \in Emails, r \in BodyRoles : Register(e, r)
  \/ \E r \in Reqs, c \in Emails : GetServicesFind(r, c)
  \/ \E r \in Reqs, failed \in BOOLEAN : GetServicesSend(r, failed)
  \/ \E r \in Reqs, c \in Emails : VerifyRoleFind(r, c)
  \/ \E r \in Reqs, failed \in BOOLEAN : VerifyRoleTest(r, failed)
  \/ \E r \in Reqs, failed \in BOOLEAN : GetUsersSend(r, failed)

\* every awaited store call settles, one way or the other, and the event
\* loop then runs the continuation
SpecServe ==
  /\ Init /\ [][NextServe]_vars
  /\ \A r \in Reqs :
       /\ WF_vars(\E failed \in BOOLEAN : GetServicesSend(r, failed))
       /\ WF_vars(\E failed \in BOOLEAN : VerifyRoleTest(r, failed))
       /\ WF_vars(\E failed \in BOOLEAN : GetUsersSend(r, failed))

\* every route, each request with one of the three kinds of credential
NextAuth == \E cred \in Credentials : RequestWith(cred)

SpecAuth == Init /\ [][NextAuth]_vars

(* ------------------------------- claims -------------------------------- *)
\* C1: a Pay on a booking whose paymentStatus is "paid" fails with AlreadyPaid
\* and leaves the payments collection as it was.
C1_PaidBookingRejectsPay ==
  [][\A b \in BookingIds, a \in Amounts :
       (/\ b \in 1..Len(bookings)
        /\ bookings[b].paymentStatus = "paid"
        /\ Pay(b, a))
       => (resp'.result = "AlreadyPaid" /\ payments' = payments)]_vars

\* C2: in every reachable state the payments collection holds at most one
\* Payment record per bookingId.
C2_OnePaymentPerBooking ==
  \A i, j \in 1..Len(payments) :
    (payments[i].bookingId # NoId /\ payments[i].bookingId = payments[j].bookingId)
      => i = j

\* C8: a successful Pay on an unpaid booking inserts one Payment, sets the
\* booking's paymentStatus to "paid" and appends one TrackingEvent with status
\* "Completed" for the booking.
C8_PayThreeWrites ==
  [][\A b \in BookingIds, a \in Amounts :
       (/\ b \in 1..Len(bookings)
        /\ bookings[b].paymentStatus # "paid"
        /\ Pay(b, a))
       => (/\ resp'.result = "ok"
           /\ payments' = Append(payments, [bookingId |-> b, amount |-> a])
           /\ bookings'[b].paymentStatus = "paid"
           /\ Len(trackings') = Len(trackings) + 1
           /\ trackings'[Len(trackings')].bookingId = b
           /\ trackings'[Len(trackings')].status = "Completed")]_vars

\* C9: a Pay with a missing bookingId, a non-positive amount or a bookingId
\* that matches no booking fails with InvalidInput or NotFound and writes
\* nothing.
C9_PayValidatesBeforeWrite ==
  [][\A b \in BodyIds, a \in Amounts :
       (/\ (b = NoId \/ a <= 0 \/ b \notin 1..Len(bookings))
        /\ Pay(b, a))
       => (/\ resp'.result \in {"InvalidInput", "NotFound"}
           /\ UNCHANGED <<payments, bookings, trackings>>)]_vars

\* C3: UpdateServiceStatus on an existing service succeeds exactly when the
\* current status has a successor in {Assigned -> Confirmed, Confirmed ->
\* Completed} and the requested status is that successor; at Completed every
\* request is rejected with InvalidTransition and the service is unchanged.
C3_StatusTable ==
  [][\A i \in 1..Len(services), s \in BodyStatus :
       UpdateServiceStatus(i, s)
       => LET cur == services[i].status
              allowed == \/ (cur = "Assigned" /\ s = "Confirmed")
                         \/ (cur = "Confirmed" /\ s = "Completed")
          IN /\ (resp'.result = "ok") <=> allowed
             /\ allowed => services' = [services EXCEPT ![i].status = s]
             /\ ~allowed => (resp'.result = "InvalidTransition" /\ services' = services)
             /\ cur = "Completed" => resp'.result = "InvalidTransition"]_vars

\* C10: AssignService for a bookingId that a Service already references fails
\* with DuplicateAssignment (AccessDenied for a caller who is no admin) and
\* inserts nothing; otherwise an admin's call appends a Service with status
\* "Assigned"; the services collection never holds two Services of one
\* bookingId.
C10_OneServicePerBooking ==
  [][/\ resp'.op = "AssignService"
        => \A c \in Emails, b \in BodyIds, p \in BodyPrices :
             \/ IF \E i \in 1..Len(services) : services[i].bookingId = b
                  THEN /\ services' = services
                       /\ resp'.result \in {"DuplicateAssignment", "AccessDenied"}
                       /\ users[c] = "admin" => resp'.result = "DuplicateAssignment"
                  ELSE users[c] = "admin"
                       => /\ resp'.result = "ok"
                          /\ Len(services') = Len(services) + 1
                          /\ SubSeq(services', 1, Len(services)) = services
                          /\ services'[Len(services')].bookingId = b
                          /\ services'[Len(services')].status = "Assigned"
             \/ ~AssignService(c, b, p)
     /\ \A i, j \in 1..Len(services') :
          services'[i].bookingId = services'[j].bookingId => i = j]_vars

\* C10 witness: an admin's second AssignService for a booking was rejected
\* while the first Service of that booking is in place.
C10_Witness ==
  /\ resp = [op |-> "AssignService", result |-> "DuplicateAssignment"]
  /\ Len(services) = 1
  /\ services[1].status = "Assigned"

\* C4: once a CashOut on a service has succeeded (its TrackingEvent is in the
\* trail), a further CashOut on that service fails with AlreadyCashedOut,
\* leaves Service.price unchanged and appends no TrackingEvent.
C4_SecondCashOutRejected ==
  [][\A i \in 1..Len(services) :
       (/\ \E t \in 1..Len(trackings) : trackings[t].bookingId = services[i].bookingId
        /\ \E n \in TrackingNos : CashOut(i, n))
       => (/\ resp'.result = "AlreadyCashedOut"
           /\ services'[i].price = services[i].price
           /\ trackings' = trackings)]_vars

\* C5: a successful CashOut sets Service.price to 40% of the amount of a
\* Payment recorded for the service's bookingId, rounded to the nearest cent
\* (no amount of whole cents lies on a tie); amount 1000.00 gives 400.00; the
\* same value is the cost of the TrackingEvent it appends.
C5_CashOutPrice ==
  [][\A i \in 1..Len(services) :
       (resp'.result = "ok" /\ \E n \in TrackingNos : CashOut(i, n))
       => LET price == services'[i].price
          IN /\ \E k \in 1..Len(payments) :
                  /\ payments[k].bookingId = services[i].bookingId
                  /\ 10 * price - 4 * payments[k].amount \in -4..4
                  /\ payments[k].amount = 100000 => price = 40000
             /\ Len(trackings') = Len(trackings) + 1
             /\ trackings'[Len(trackings')].cost = price]_vars

\* C5 witness: a cash-out against a payment of 1000.00 has stored 400.00 as
\* the price and as the cost of its TrackingEvent.
C5_Witness ==
  /\ resp = [op |-> "CashOut", result |-> "ok"]
  /\ Len(payments) = 1 /\ payments[1].amount = 100000
  /\ \E i \in 1..Len(services) :
       /\ services[i].bookingId = payments[1].bookingId
       /\ services[i].price = 40000
       /\ \E t \in 1..Len(trackings) :
            trackings[t].bookingId = services[i].bookingId /\ trackings[t].cost = 40000

\* C6: no application is "approved" while the user with the application's
\* email lacks the role "decorator".
C6_ApprovedImpliesDecorator ==
  \A i \in 1..Len(decorators) :
    decorators[i].status = "approved" => users[decorators[i].email] = "decorator"

\* C7: Apply for an email that already has an application (in any status)
\* fails with DuplicateApplication and inserts nothing; otherwise it appends a
\* pending application; the decorators collection never holds two
\* applications of one email.
C7_OneApplicationPerEmail ==
  [][/\ \A e \in Emails :
          Apply(e)
          => IF \E i \in 1..Len(decorators) : decorators[i].email = e
               THEN /\ resp'.result = "DuplicateApplication"
                    /\ decorators' = decorators
               ELSE /\ resp'.result = "ok"
                    /\ decorators' = Append(decorators, [email |-> e, status |-> "pending"])
     /\ \A i, j \in 1..Len(decorators') :
          decorators'[i].email = decorators'[j].email => i = j]_vars

\* C7 witness: an Apply was rejected as a duplicate of the only application,
\* which is already approved.
C7_Witness ==
  /\ resp = [op |-> "Apply", result |-> "DuplicateApplication"]
  /\ Len(decorators) = 1
  /\ decorators[1].status = "approved"

\* C11: the booking a CreateBooking stores carries the caller's email as
\* userEmail whatever the body carries, no request changes a booking's
\* userEmail, and so GET /bookings/user returns the new booking to its creator
\* and to no other caller.
C11_BookingOwnerIsCaller ==
  [][/\ resp'.op = "CreateBooking"
        => \A c \in Emails, e \in Emails, ps \in BodyPaymentStatus :
             \/ /\ Len(bookings') = Len(bookings) + 1
                /\ bookings'[Len(bookings')].userEmail = c
                /\ \A d \in Emails :
                     Len(bookings') \in {i \in 1..Len(bookings') : bookings'[i].userEmail = d}
                       <=> d = c
             \/ ~CreateBooking(c, e, ps)
     /\ \A i \in 1..Len(bookings) :
          i \in 1..Len(bookings') /\ bookings'[i].userEmail = bookings[i].userEmail]_vars

\* C11 witness: bookings of two different callers are stored, and
\* GET /bookings/user gives each caller a different, non-empty list.
C11_Witness ==
  /\ resp.op = "CreateBooking"
  /\ \A c \in Emails : BookingsOfUser(c) # {}
  /\ \A c, d \in Emails : c # d => BookingsOfUser(c) \cap BookingsOfUser(d) = {}

\* C12: every booking is stored by CreateBooking with paymentStatus "unpaid"
\* whatever the body contains, and in every state a booking whose
\* paymentStatus is "paid" has a Payment record for its id.
C12_PaidOnlyThroughPay ==
  [][/\ resp'.op = "CreateBooking"
        => /\ Len(bookings') = Len(bookings) + 1
           /\ bookings'[Len(bookings')].paymentStatus = "unpaid"
     /\ \A i \in 1..Len(bookings') :
          bookings'[i].paymentStatus = "paid"
            => \E k \in 1..Len(payments') : payments'[k].bookingId = i]_vars

\* C13: an Approve or AssignService by a caller whose user record is absent or
\* whose role is not "admin" fails with AccessDenied and changes no
\* application, user or service record.
C13_AdminOnly ==
  [][resp'.op \in {"Approve", "AssignService"}
       => \A c \in {e \in Emails : users[e] # "admin"} :
            \/ /\ resp'.result = "AccessDenied"
               /\ UNCHANGED <<decorators, users, services>>
            \/ /\ \A i \in 1..MaxApps : ~Approve(c, i)
               /\ \A b \in BodyIds, p \in BodyPrices : ~AssignService(c, b, p)]_vars

\* C13 witness: with a pending application on file and a registered user who
\* is no admin (nobody is), an Approve was refused.
C13_Witness ==
  /\ resp = [op |-> "Approve", result |-> "AccessDenied"]
  /\ \E e \in Emails : users[e] = "user"
  /\ \A e \in Emails : users[e] # "admin"
  /\ Len(decorators) >= 1 /\ decorators[1].status = "pending"

\* C14: a user record created by registration has role "user" whatever role
\* the body carries, and, nobody being admin at the start, no sequence of
\* requests makes a user "admin".
C14_RegistrationGrantsUserRole ==
  [][/\ \A e \in Emails :
          (users[e] = NoUser /\ users'[e] # NoUser /\ resp'.op = "Register")
            => users'[e] = "user"
     /\ \A e \in Emails : users'[e] # "admin"]_vars

\* C15: a successful CashOut, whatever the service's status was, sets the
\* status to "Completed" and the price to the amount computed from the first
\* Payment of the booking, leaves the service's other fields alone, and
\* appends exactly one TrackingEvent, for the service's bookingId, carrying
\* that amount as cost and the supplied tracking number.
C15_CashOutEffect ==
  [][(resp'.op = "CashOut" /\ resp'.result = "ok")
       => \A i \in 1..Len(services), n \in TrackingNos :
            \/ /\ services'[i].status = "Completed"
               /\ services'[i].bookingId = services[i].bookingId
               /\ \E k \in 1..Len(payments) :
                    /\ payments[k].bookingId = services[i].bookingId
                    /\ \A m \in 1..(k - 1) : payments[m].bookingId # services[i].bookingId
                    /\ 10 * services'[i].price - 4 * payments[k].amount \in -4..4
               /\ Len(trackings') = Len(trackings) + 1
               /\ SubSeq(trackings', 1, Len(trackings)) = trackings
               /\ trackings'[Len(trackings')].bookingId = services[i].bookingId
               /\ trackings'[Len(trackings')].cost = services'[i].price
               /\ trackings'[Len(trackings')].trackingNo = n
            \/ ~CashOut(i, n)]_vars

\* C15 witness: a service that went through Confirmed and Completed with
\* price 0 has been cashed out: status "Completed", price 400.00 and one
\* TrackingEvent with that cost and the tracking number TRK-2.
C15_Witness ==
  /\ resp = [op |-> "CashOut", result |-> "ok"]
  /\ Len(services) = 1 /\ Len(trackings) = 1
  /\ services[1].status = "Completed" /\ services[1].price = 40000
  /\ trackings[1] = [bookingId |-> services[1].bookingId, trackingNo |-> "TRK-2",
                     cost |-> 40000, status |-> "Completed"]

\* C16: a CashOut on an id that matches no service answers NotFound, a
\* CashOut on a service whose bookingId has no Payment answers
\* PaymentMissing, and either answer leaves the services and the
\* TrackingEvents as they were.
C16_CashOutFailures ==
  [][resp'.op = "CashOut"
       => \A i \in 1..MaxServices, n \in TrackingNos :
            \/ /\ i > Len(services) => resp'.result = "NotFound"
               /\ (i <= Len(services) /\ PaymentsFor(services[i].bookingId) = {})
                    => resp'.result = "PaymentMissing"
               /\ resp'.result \in {"NotFound", "PaymentMissing"}
                    => UNCHANGED <<services, trackings>>
            \/ ~CashOut(i, n)]_vars

\* C19: a service with a positive price has status "Completed" and a Payment
\* for its bookingId, and the first CashOut on a service whose booking has a
\* Payment and no TrackingEvent yet succeeds.
C19_PriceOnlyFromCashOut ==
  [][/\ \A i \in 1..Len(services') :
          services'[i].price > 0
            => /\ services'[i].status = "Completed"
               /\ \E k \in 1..Len(payments') :
                    payments'[k].bookingId = services'[i].bookingId
     /\ resp'.op = "CashOut"
          => \A i \in 1..Len(services), n \in TrackingNos :
               \/ (/\ PaymentsFor(services[i].bookingId) # {}
                   /\ \A t \in 1..Len(trackings) :
                        trackings[t].bookingId # services[i].bookingId)
                    => resp'.result = "ok"
               \/ ~CashOut(i, n)]_vars

\* C20: every Service references the id of an existing booking whose
\* paymentStatus is "paid".
C20_ServiceOnPaidBooking ==
  \A i \in 1..Len(services) :
    /\ services[i].bookingId \in 1..Len(bookings)
    /\ bookings[services[i].bookingId].paymentStatus = "paid"

\* C17: a request without a bearer credential is answered Unauthenticated,
\* a request whose credential fails verification is answered Forbidden, and
\* in both cases no collection changes.
C17_CredentialGuardFirst ==
  [][\A cred \in {NoToken, BadToken} :
       RequestWith(cred)
         => /\ resp'.result = VerifyJWT(cred)
            /\ UNCHANGED <<users, decorators, bookings, payments, services, trackings>>]_vars

\* position of a status in the order Assigned < Confirmed < Completed
Rank(status) ==
  CASE status = "Assigned"  -> 1
    [] status = "Confirmed" -> 2
    [] status = "Completed" -> 3
    [] OTHER -> 0

\* C18: with the reads and writes of the status updates and the cash-outs
\* interleaved, no step moves a service's status backwards in the order
\* Assigned < Confirmed < Completed.
C18_StatusNeverRegresses ==
  [][\A i \in 1..Len(services) :
       Rank(services'[i].status) >= Rank(services[i].status)]_vars

\* C21: every request in flight is eventually answered, whether its store
\* calls succeed or fail and whether or not the record it looks up exists.
C21_EveryRequestAnswered ==
  \A r \in Reqs : (pending[r] # Idle) ~> (pending[r] = Idle)

\* C22: client.connect() is called at most once, and the requests in flight
\* all read through the same db handle.
C22_ConnectOnce ==
  /\ connects <= 1
  /\ \A r \in Reqs, q \in Reqs :
       (pending[r].pc = "collection" /\ pending[q].pc = "collection")
         => pending[r].handle = pending[q].handle

\* C23: with the steps of the cash-outs interleaved, at most one cash-out
\* TrackingEvent exists for the bookingId of any service, that is at most
\* one CashOut on the service has succeeded.
C23_OneCashOutPerService ==
  \A i \in 1..Len(services) :
    Cardinality({t \in 1..Len(trackings) :
                   trackings[t].bookingId = services[i].bookingId}) <= 1

====
